---- MODULE Spec2Model ----
(***************************************************************************)
(* Authentication and authorization core of the employee/HR portal         *)
(* backend: credential store (User model), token issuer (jsonwebtoken),    *)
(* session manager (auth.service), request authenticator (authenticate),   *)
(* role authorizer (requireRole) and the admin HR module.                   *)
(***************************************************************************)
EXTENDS Integers, Sequences, FiniteSets, TLC

(***************************************************************************)
(* Bounds of the model                                                      *)
(***************************************************************************)
MaxUsers == 2
MaxTicks == 1
MaxIssued == 4

(***************************************************************************)
(* Program constants                                                        *)
(***************************************************************************)
\* TOKEN_EXPIRATION.ACCESS_TOKEN = '15m', in seconds
ACCESS_TOKEN == 900
\* TOKEN_EXPIRATION.REFRESH_TOKEN = '7d', in seconds
REFRESH_TOKEN == 604800
BCRYPT_SALT_ROUNDS == 10

UserRole == {"SUPER_ADMIN", "HR", "MANAGER", "EMPLOYEE"}

AUTH_ERRORS ==
  [INVALID_CREDENTIALS   |-> "Invalid email or password",
   USER_NOT_FOUND        |-> "Invalid email or password",
   USER_INACTIVE         |-> "Account is inactive. Please contact administrator",
   TOKEN_EXPIRED         |-> "Token has expired",
   TOKEN_INVALID         |-> "Invalid token",
   REFRESH_TOKEN_INVALID |-> "Invalid refresh token",
   UNAUTHORIZED          |-> "Unauthorized access",
   FORBIDDEN             |-> "Insufficient permissions"]

\* messages of the plain errors thrown by the services
USER_EXISTS == "User with this email already exists"
USER_MISSING == "User not found"
NOT_HR_USER == "User is not an HR user"

(***************************************************************************)
(* Inputs                                                                   *)
(***************************************************************************)
\* e-mail addresses as typed by clients
RawEmails == {"A@x.io", "b@x.io"}
Passwords == {"Passw0rd!", "Secr3t#Key"}
\* values found in JWT_SECRET / JWT_REFRESH_SECRET of process.env
SecretA == "access-secret-0123456789-abcdefgh"
SecretB == "refresh-secret-0123456789-abcdefg"
ShortSecret == "changeme"
\* a key that is not configured in the process
ForeignKey == "kEvil"

\* a schema that validates JWT_SECRET only
envSchemaAccessOnly(cfg) == Len(cfg.JWT_SECRET) >= 32

\* envSchema.parse(process.env), as far as the two secrets go: each is a
\* string of at least 32 characters; otherwise the process exits
envSchema(cfg) ==
  /\ Len(cfg.JWT_SECRET) >= 32
  /\ Len(cfg.JWT_REFRESH_SECRET) >= 32

\* the environments the process may be started with, and those it runs with
Environments ==
  [JWT_SECRET : {SecretA, SecretB, ShortSecret},
   JWT_REFRESH_SECRET : {SecretA, SecretB, ShortSecret}]
Configurations == {cfg \in Environments : envSchema(cfg)}
\* steps by which the wall clock (seconds) advances between requests
TickSteps == {1, REFRESH_TOKEN}
GateTickSteps == {1, ACCESS_TOKEN}

\* String.prototype.toLowerCase, applied by the zod schemas and by the
\* mongoose schema (lowercase: true)
toLowerCase(e) == IF e = "A@x.io" THEN "a@x.io" ELSE e

(***************************************************************************)
(* Password Hasher (bcrypt)                                                 *)
(***************************************************************************)
\* bcrypt.hash(plain, BCRYPT_SALT_ROUNDS): the digest embeds algorithm and
\* cost; the plaintext it was derived from is kept abstractly
bcryptHash(plain) == [alg |-> "bcrypt", rounds |-> BCRYPT_SALT_ROUNDS, of |-> plain]

\* userSchema.methods.comparePassword: bcrypt.compare(candidate, this.password)
comparePassword(user, candidatePassword) == user.password.of = candidatePassword

(***************************************************************************)
(* Tokens (jsonwebtoken, HS256)                                             *)
(***************************************************************************)
\* A JWT is determined by its payload, its iat/exp and the signing key:
\* HS256 is deterministic, so equal fields are the same token string.
\* role/email are "none" in payloads that do not carry them.
Jwt(key, userId, email, role, iat, ttl) ==
  [wellFormed |-> TRUE, key |-> key, userId |-> userId, email |-> email,
   role |-> role, iat |-> iat, exp |-> iat + ttl]

\* a non-empty string that is not a JWT
Malformed ==
  [wellFormed |-> FALSE, key |-> "none", userId |-> 0, email |-> "garbage",
   role |-> "none", iat |-> 0, exp |-> 0]

\* the absent value (undefined) of a token field
NoToken ==
  [wellFormed |-> FALSE, key |-> "none", userId |-> 0, email |-> "none",
   role |-> "none", iat |-> 0, exp |-> 0]

\* a token issuer that signs the default role instead of the account's
generateAccessTokenDefaultRole(e, payload, now) ==
  Jwt(e.JWT_SECRET, payload.userId, payload.email, "EMPLOYEE", now, ACCESS_TOKEN)

\* generateAccessToken(payload): jwt.sign(payload, env.JWT_SECRET, {expiresIn})
generateAccessToken(e, payload, now) ==
  Jwt(e.JWT_SECRET, payload.userId, payload.email, payload.role, now, ACCESS_TOKEN)

\* generateRefreshToken(userId): jwt.sign({userId}, env.JWT_REFRESH_SECRET, {expiresIn})
generateRefreshToken(e, userId, now) ==
  Jwt(e.JWT_REFRESH_SECRET, userId, "none", "none", now, REFRESH_TOKEN)

\* jwt.verify(token, secret): the error class thrown, or "ok".
\* Order of the library: decode, then signature, then expiry (now >= exp).
jwtVerify(token, secret, now) ==
  IF ~token.wellFormed THEN "JsonWebTokenError"
  ELSE IF token.key # secret THEN "JsonWebTokenError"
  ELSE IF now >= token.exp THEN "TokenExpiredError"
  ELSE "ok"

\* error instanceof cls, for the error classes of jsonwebtoken:
\* TokenExpiredError.prototype = Object.create(JsonWebTokenError.prototype)
instanceof(error, cls) ==
  \/ error = cls
  \/ error = "TokenExpiredError" /\ cls = "JsonWebTokenError"

(***************************************************************************)
(* State                                                                    *)
(***************************************************************************)
VARIABLES
  env,      \* validated environment: the two signing secrets
  users,    \* the User collection; _id of a document is its index
  clock,    \* wall clock in seconds (Date.now() / 1000)
  nticks,   \* number of clock advances so far
  issued,   \* tokens handed out in responses, known to clients
  res,      \* the last request in the current second and its response
  prevOp,   \* summary of the request before that one
  calls,    \* service calls in flight, one per concurrently served request
  proc,     \* the server process: its lifecycle and its process.env
  client    \* the single-page frontend in one browser tab

vars == <<env, users, clock, nticks, issued, res, prevOp, calls, proc, client>>

\* new Error(message): a plain Error carries no statusCode
Error(message) == [message |-> message, statusCode |-> 0]
NoError == [message |-> "", statusCode |-> 0]

\* User.findOne({ email }): _id of the document, 0 when there is none
findOne(us, email) ==
  IF \E i \in 1..Len(us) : us[i].email = email
  THEN CHOOSE i \in 1..Len(us) : us[i].email = email
  ELSE 0

\* User.findById(id): whether the document exists
findById(us, id) == id \in 1..Len(us)

\* User.create({...}): schema setters (lowercase) and the pre-save hook
\* (bcrypt hash of the password) run before the document is stored
UserCreate(us, email, password, role, isActive) ==
  Append(us, [email |-> toLowerCase(email), password |-> bcryptHash(password),
              role |-> role, isActive |-> isActive, refreshToken |-> NoToken])

(***************************************************************************)
(* Session Manager (auth.service)                                           *)
(***************************************************************************)
\* registerUser(input); input.role is "undefined" when not given
registerUser(us, input) ==
  IF findOne(us, input.email) # 0
  THEN [error |-> Error(USER_EXISTS), users |-> us, userId |-> 0]
  ELSE [error |-> NoError,
        users |-> UserCreate(us, input.email, input.password,
                             IF input.role = "undefined" THEN "EMPLOYEE" ELSE input.role,
                             TRUE),
        userId |-> Len(us) + 1]

\* a login that tells a wrong password apart from an unknown e-mail
loginUserLeaky(us, e, now, input) ==
  LET id == findOne(us, input.email)
      fail(msg) == [error |-> Error(msg), users |-> us, userId |-> 0,
                    accessToken |-> NoToken, refreshToken |-> NoToken]
  IN IF id = 0 THEN fail(AUTH_ERRORS.INVALID_CREDENTIALS)
     ELSE IF ~us[id].isActive THEN fail(AUTH_ERRORS.USER_INACTIVE)
     ELSE IF ~comparePassword(us[id], input.password) THEN fail("Wrong password")
     ELSE [error |-> NoError,
           users |-> [us EXCEPT ![id].refreshToken = generateRefreshToken(e, id, now)],
           userId |-> id,
           accessToken |-> generateAccessToken(e,
              [userId |-> id, email |-> us[id].email, role |-> us[id].role], now),
           refreshToken |-> generateRefreshToken(e, id, now)]

\* a login that does not look at isActive
loginUserNoActiveCheck(us, e, now, input) ==
  LET id == findOne(us, input.email)
      fail(msg) == [error |-> Error(msg), users |-> us, userId |-> 0,
                    accessToken |-> NoToken, refreshToken |-> NoToken]
  IN IF id = 0 THEN fail(AUTH_ERRORS.INVALID_CREDENTIALS)
     ELSE IF ~comparePassword(us[id], input.password)
          THEN fail(AUTH_ERRORS.INVALID_CREDENTIALS)
     ELSE [error |-> NoError,
           users |-> [us EXCEPT ![id].refreshToken = generateRefreshToken(e, id, now)],
           userId |-> id,
           accessToken |-> generateAccessToken(e,
              [userId |-> id, email |-> us[id].email, role |-> us[id].role], now),
           refreshToken |-> generateRefreshToken(e, id, now)]

\* loginUser(input)
loginUser(us, e, now, input) ==
  LET id == findOne(us, input.email)
      fail(msg) == [error |-> Error(msg), users |-> us, userId |-> 0,
                    accessToken |-> NoToken, refreshToken |-> NoToken]
  IN IF id = 0 THEN fail(AUTH_ERRORS.INVALID_CREDENTIALS)
     ELSE IF ~us[id].isActive THEN fail(AUTH_ERRORS.USER_INACTIVE)
     ELSE IF ~comparePassword(us[id], input.password)
          THEN fail(AUTH_ERRORS.INVALID_CREDENTIALS)
     ELSE LET payload == [userId |-> id, email |-> us[id].email, role |-> us[id].role]
              accessToken == generateAccessToken(e, payload, now)
              refreshToken == generateRefreshToken(e, id, now)
          IN [error |-> NoError,
              users |-> [us EXCEPT ![id].refreshToken = refreshToken],
              userId |-> id,
              accessToken |-> accessToken, refreshToken |-> refreshToken]

\* a refresh that accepts a token whose expiry has passed
refreshAccessTokenIgnoreExpiry(us, e, now, input) ==
  LET v == jwtVerify(input.refreshToken, e.JWT_REFRESH_SECRET, now)
      id == input.refreshToken.userId
      fail(msg) == [error |-> Error(msg), userId |-> 0, accessToken |-> NoToken]
  IN IF v = "JsonWebTokenError" THEN fail(AUTH_ERRORS.REFRESH_TOKEN_INVALID)
     ELSE IF ~findById(us, id) \/ ~us[id].isActive THEN fail(AUTH_ERRORS.USER_INACTIVE)
     ELSE IF us[id].refreshToken # input.refreshToken
          THEN fail(AUTH_ERRORS.REFRESH_TOKEN_INVALID)
     ELSE [error |-> NoError, userId |-> id,
           accessToken |-> generateAccessToken(e,
              [userId |-> id, email |-> us[id].email, role |-> us[id].role], now)]

\* a refresh that does not compare the token with the stored fingerprint
refreshAccessTokenNoCompare(us, e, now, input) ==
  LET v == jwtVerify(input.refreshToken, e.JWT_REFRESH_SECRET, now)
      id == input.refreshToken.userId
      fail(msg) == [error |-> Error(msg), userId |-> 0, accessToken |-> NoToken]
  IN IF v # "ok" THEN fail(AUTH_ERRORS.REFRESH_TOKEN_INVALID)
     ELSE IF ~findById(us, id) \/ ~us[id].isActive THEN fail(AUTH_ERRORS.USER_INACTIVE)
     ELSE [error |-> NoError, userId |-> id,
           accessToken |-> generateAccessToken(e,
              [userId |-> id, email |-> us[id].email, role |-> us[id].role], now)]

\* refreshAccessToken(input)
refreshAccessToken(us, e, now, input) ==
  LET v == jwtVerify(input.refreshToken, e.JWT_REFRESH_SECRET, now)
      id == input.refreshToken.userId
      fail(msg) == [error |-> Error(msg), userId |-> 0, accessToken |-> NoToken]
  IN IF v # "ok"
     THEN \* catch: every error of jwt.verify is a JsonWebTokenError
          IF instanceof(v, "JsonWebTokenError")
          THEN fail(AUTH_ERRORS.REFRESH_TOKEN_INVALID)
          ELSE fail(v)
     ELSE IF ~findById(us, id) \/ ~us[id].isActive THEN fail(AUTH_ERRORS.USER_INACTIVE)
     ELSE IF us[id].refreshToken # input.refreshToken
          THEN fail(AUTH_ERRORS.REFRESH_TOKEN_INVALID)
     ELSE [error |-> NoError, userId |-> id,
           accessToken |-> generateAccessToken(e,
              [userId |-> id, email |-> us[id].email, role |-> us[id].role], now)]

\* a logout that leaves the stored fingerprint in place
logoutUserKeep(us, userId) == us

\* logoutUser(userId): findByIdAndUpdate(userId, { $unset: { refreshToken: 1 } })
logoutUser(us, userId) ==
  IF findById(us, userId) THEN [us EXCEPT ![userId].refreshToken = NoToken] ELSE us

\* getUserById(userId)
getUserById(us, userId) ==
  IF ~findById(us, userId) \/ ~us[userId].isActive
  THEN Error(USER_MISSING)
  ELSE NoError

(***************************************************************************)
(* Admin HR service (hr.service)                                            *)
(***************************************************************************)
\* createHrUser(input): the role is always HR
createHrUser(us, input) ==
  IF findOne(us, input.email) # 0
  THEN [error |-> Error(USER_EXISTS), users |-> us, userId |-> 0]
  ELSE [error |-> NoError,
        users |-> UserCreate(us, input.email, input.password, "HR", TRUE),
        userId |-> Len(us) + 1]

\* a status change that also revokes the stored fingerprint of an account
\* it deactivates
updateHrStatusRevoking(us, userId, input) ==
  IF ~findById(us, userId)
  THEN [error |-> Error(USER_MISSING), users |-> us, userId |-> 0]
  ELSE IF us[userId].role # "HR"
  THEN [error |-> Error(NOT_HR_USER), users |-> us, userId |-> 0]
  ELSE [error |-> NoError,
        users |-> [us EXCEPT ![userId].isActive = input.isActive,
                             ![userId].refreshToken =
                                IF input.isActive THEN @ ELSE NoToken],
        userId |-> userId]

\* updateHrStatus(userId, input)
updateHrStatus(us, userId, input) ==
  IF ~findById(us, userId)
  THEN [error |-> Error(USER_MISSING), users |-> us, userId |-> 0]
  ELSE IF us[userId].role # "HR"
  THEN [error |-> Error(NOT_HR_USER), users |-> us, userId |-> 0]
  ELSE [error |-> NoError,
        users |-> [us EXCEPT ![userId].isActive = input.isActive],
        userId |-> userId]

(***************************************************************************)
(* Request Authenticator (auth.middleware)                                  *)
(***************************************************************************)
\* the Authorization header: absent, or a 7-character prefix and the rest
NoHeader == [present |-> FALSE, prefix |-> "", rest |-> NoToken]
Header(prefix, token) == [present |-> TRUE, prefix |-> prefix, rest |-> token]

\* the decoded payload that jwt.verify returns
decoded(token) == [userId |-> token.userId, email |-> token.email, role |-> token.role]
NoUser == [userId |-> 0, email |-> "none", role |-> "none"]

\* an authenticator that takes the token after any scheme
authenticateAnyScheme(authHeader, e, now) ==
  LET reject(status, msg) ==
        [next |-> FALSE, status |-> status, message |-> msg, user |-> NoUser]
      token == authHeader.rest
      v == jwtVerify(token, e.JWT_SECRET, now)
  IN IF ~authHeader.present
     THEN reject(401, AUTH_ERRORS.UNAUTHORIZED)
     ELSE IF v = "ok"
     THEN [next |-> TRUE, status |-> 0, message |-> "", user |-> decoded(token)]
     ELSE reject(401, AUTH_ERRORS.TOKEN_INVALID)

\* an authenticator that looks the account up and turns inactive ones away
authenticateChecksStore(authHeader, e, now) ==
  LET reject(status, msg) ==
        [next |-> FALSE, status |-> status, message |-> msg, user |-> NoUser]
      token == authHeader.rest
      v == jwtVerify(token, e.JWT_SECRET, now)
  IN IF ~authHeader.present \/ authHeader.prefix # "Bearer "
     THEN reject(401, AUTH_ERRORS.UNAUTHORIZED)
     ELSE IF v # "ok" THEN reject(401, AUTH_ERRORS.TOKEN_INVALID)
     ELSE IF ~findById(users, token.userId) \/ ~users[token.userId].isActive
     THEN reject(401, AUTH_ERRORS.UNAUTHORIZED)
     ELSE [next |-> TRUE, status |-> 0, message |-> "", user |-> decoded(token)]

\* authenticate(req, res, next): next is TRUE when next() is called;
\* otherwise status/message are the response it sends itself
authenticate(authHeader, e, now) ==
  LET reject(status, msg) ==
        [next |-> FALSE, status |-> status, message |-> msg, user |-> NoUser]
      token == authHeader.rest
      v == jwtVerify(token, e.JWT_SECRET, now)
  IN IF ~authHeader.present \/ authHeader.prefix # "Bearer "
     THEN reject(401, AUTH_ERRORS.UNAUTHORIZED)
     ELSE IF v = "ok"
     THEN [next |-> TRUE, status |-> 0, message |-> "", user |-> decoded(token)]
     ELSE IF instanceof(v, "JsonWebTokenError")
     THEN reject(401, AUTH_ERRORS.TOKEN_INVALID)
     ELSE IF instanceof(v, "TokenExpiredError")
     THEN reject(401, AUTH_ERRORS.TOKEN_EXPIRED)
     ELSE reject(500, v)

(***************************************************************************)
(* Role Authorizer (rbac.middleware)                                        *)
(***************************************************************************)
\* JavaScript values that occur as arguments of requireRole
Str(s) == [tag |-> "string", str |-> s, len |-> 0]
Arr(roles) == [tag |-> "array", str |-> "", len |-> Cardinality(roles)]
Undefined == [tag |-> "undefined", str |-> "", len |-> 0]

\* x === y: strings compare by value, an array literal is a fresh object
\* and equals no other value
StrictEquals(x, y) == x.tag = "string" /\ y.tag = "string" /\ x.str = y.str

\* Array.prototype.includes over the rest-parameter array
includes(args, x) == \E a \in args : StrictEquals(a, x)

\* the role claim as a JavaScript value
roleValue(user) == IF user.role = "none" THEN Undefined ELSE Str(user.role)

\* a role check that looks at the role before it looks for the user
requireRoleRoleFirst(allowedRoles, hasUser, user) ==
  IF ~hasUser \/ ~includes(allowedRoles, roleValue(user))
  THEN [next |-> FALSE, status |-> 403, message |-> AUTH_ERRORS.FORBIDDEN]
  ELSE [next |-> TRUE, status |-> 0, message |-> ""]

\* a role check that lets every authenticated request through
requireRoleAnyRole(allowedRoles, hasUser, user) ==
  IF ~hasUser
  THEN [next |-> FALSE, status |-> 401, message |-> AUTH_ERRORS.UNAUTHORIZED]
  ELSE [next |-> TRUE, status |-> 0, message |-> ""]

\* requireRole(...allowedRoles)(req, res, next); hasUser is !!req.user
requireRole(allowedRoles, hasUser, user) ==
  IF ~hasUser
  THEN [next |-> FALSE, status |-> 401, message |-> AUTH_ERRORS.UNAUTHORIZED]
  ELSE IF ~includes(allowedRoles, roleValue(user))
  THEN [next |-> FALSE, status |-> 403, message |-> AUTH_ERRORS.FORBIDDEN]
  ELSE [next |-> TRUE, status |-> 0, message |-> ""]

\* requireRole(r1, ..., rn): each role is one argument
RestArgs(roles) == {Str(r) : r \in roles}

requireSuperAdmin == RestArgs({"SUPER_ADMIN"})
requireHR == RestArgs({"HR", "SUPER_ADMIN"})
requireManager == RestArgs({"MANAGER", "HR", "SUPER_ADMIN"})
requireEmployee == RestArgs({"EMPLOYEE", "MANAGER", "HR", "SUPER_ADMIN"})

\* router.use(requireRole([UserRole.SUPER_ADMIN])) of the admin HR router:
\* the whole array is the single argument
adminHrAllowedRoles == {Arr({"SUPER_ADMIN"})}

(***************************************************************************)
(* Error middleware                                                         *)
(***************************************************************************)
\* errorMiddleware: statusCode || 500
errorMiddleware(err) ==
  [status |-> IF err.statusCode # 0 THEN err.statusCode ELSE 500,
   message |-> err.message]

(***************************************************************************)
(* Requests                                                                 *)
(***************************************************************************)
\* the last request (in*, scheme, allowed) and its response; for a status
\* change, wasActive tells whether the account was active before it
NoRes ==
  [op |-> "none", status |-> 0, message |-> "", accessToken |-> NoToken,
   refreshToken |-> NoToken, userId |-> 0, inEmail |-> "none",
   inPassword |-> "none", scheme |-> "none", inToken |-> NoToken,
   authed |-> FALSE, handlerRan |-> FALSE, allowed |-> {}, dropped |-> NoToken,
   wasActive |-> FALSE]

\* what is remembered of the request before the last one: whether it was a
\* successful login or logout that overwrote or cleared a stored
\* fingerprint, and that fingerprint
Summary(r) ==
  IF r.op \in {"login", "logout"} /\ r.status = 200 /\ r.dropped # NoToken
  THEN [op |-> r.op, dropped |-> r.dropped]
  ELSE [op |-> "other", dropped |-> NoToken]

\* a request of kind op received at second now
Req(op, now) == [NoRes EXCEPT !.op = op]

\* refresh tokens sent to POST /auth/refresh: any issued token, a token
\* signed with a foreign key, a string that is no token
RefreshInputs ==
  issued \cup {Jwt(ForeignKey, 1, "none", "none", clock, REFRESH_TOKEN), Malformed}

\* the fingerprint stored for an account, NoToken when there is no account
stored(us, id) == IF findById(us, id) THEN us[id].refreshToken ELSE NoToken

\* request part of res for a request with an Authorization header
WithHeader(op, h) ==
  [Req(op, clock) EXCEPT
                !.scheme = IF h.present THEN h.prefix ELSE "none",
                !.inToken = h.rest]

\* requests that the event loop serves concurrently
Procs == {1, 2}

\* the local variables of one service call: where it stands (pc), its input,
\* the document it has read (doc is the _id, 0 when none; snap its fields as
\* read), when it signed (at), what it has produced, the error it has
\* thrown, the position of its write among all writes (order), whether
\* another call was in flight at some time while it was (overlap), how many
\* queries it has sent to MongoDB (storeCalls), whether one of them has
\* failed (fault), and whether a logout of the account it has read has
\* completed while it was in flight (loggedOut)
NoDoc ==
  [email |-> "none", password |-> bcryptHash("none"), role |-> "none",
   isActive |-> FALSE, refreshToken |-> NoToken]
Idle ==
  [op |-> "idle", pc |-> "done", email |-> "none", password |-> "none",
   role |-> "none", inToken |-> NoToken,
   doc |-> 0, snap |-> NoDoc, at |-> 0, accessToken |-> NoToken,
   refreshToken |-> NoToken, error |-> NoError, order |-> 0, overlap |-> FALSE,
   storeCalls |-> 0, fault |-> FALSE, loggedOut |-> FALSE]

\* a call is in flight from its first step until it has returned or thrown
InFlight(p) == calls[p].pc # "done"

\* process p starts a call c: it overlaps every call in flight
Start(p, c) ==
  [q \in Procs |->
     IF q = p THEN [c EXCEPT !.overlap = \E o \in Procs \ {p} : InFlight(o)]
     ELSE IF InFlight(q) THEN [calls[q] EXCEPT !.overlap = TRUE]
     ELSE calls[q]]

\* the position of the next write among all writes of the calls on record
NextOrder == 1 + Cardinality({q \in Procs : calls[q].order > 0})

\* a variable of process.env: unset, or set to a string
Unset == [set |-> FALSE, value |-> ""]
Set(v) == [set |-> TRUE, value |-> v]

\* a server process that has passed config/env and app.listen with the
\* validated environment cfg
Running(cfg) ==
  [state |-> "listening",
   env |-> [JWT_SECRET |-> Set(cfg.JWT_SECRET),
            JWT_REFRESH_SECRET |-> Set(cfg.JWT_REFRESH_SECRET)]]

\* a request GET /auth/me of the frontend: not sent ("none"), on its way
\* ("sent") or answered and on its way back ("answered"); the token of the
\* Authorization header it was sent with, the status of the answer (0 when
\* no answer arrives), the user in the answer, and whether a login has been
\* fulfilled since it was sent (stale)
NoRequest ==
  [state |-> "none", header |-> NoToken, status |-> 0, userId |-> 0,
   stale |-> FALSE]

\* the frontend in one browser tab: whether the page is loaded, the path
\* shown, localStorage['hr_portal_access_token'], the auth slice
\* (isAuthenticated, user, accessToken, loading), the default Authorization
\* header of apiClient, the getCurrentUser request, and of the history:
\* the last thing that happened (event), the getCurrentUser request settled
\* last (last), whether a fulfilled login has been followed neither by a
\* logout nor by a 401 to a request sent with its token (session), and the
\* account (subject) whose logout was run last.
\* NoToken stands for null / no header, user 0 for null.
NoClient ==
  [open |-> FALSE, path |-> "none", localStorage |-> NoToken,
   isAuthenticated |-> FALSE, user |-> 0, accessToken |-> NoToken,
   loading |-> FALSE, header |-> NoToken, me |-> NoRequest,
   event |-> "none", last |-> NoRequest, session |-> FALSE, subject |-> 0]

Init ==
  /\ env = [JWT_SECRET |-> SecretA, JWT_REFRESH_SECRET |-> SecretB]
  /\ users = <<>>
  /\ clock = 0
  /\ nticks = 0
  /\ issued = {}
  /\ res = NoRes
  /\ prevOp = Summary(NoRes)
  /\ calls = [p \in Procs |-> Idle]
  /\ proc = Running(env)
  /\ client = NoClient

\* time passes; the request log starts anew
Tick(d) ==
  /\ nticks < MaxTicks
  /\ clock' = clock + d
  /\ nticks' = nticks + 1
  /\ res' = NoRes
  /\ prevOp' = Summary(NoRes)
  /\ UNCHANGED <<proc, client, calls, env, users, issued>>

\* bodies sent to POST /auth/register; role is "undefined" when omitted
RegisterRequests ==
  {[email |-> "A@x.io", password |-> "Passw0rd!", role |-> "undefined"],
   [email |-> "b@x.io", password |-> "Secr3t#Key", role |-> "SUPER_ADMIN"]}

\* POST /auth/register: validateRequest(registerSchema), registerController
Register(rawEmail, password, role) ==
  LET input == [email |-> toLowerCase(rawEmail), password |-> password, role |-> role]
      r == registerUser(users, input)
      e == errorMiddleware(r.error)
  IN /\ proc.state = "listening"
     /\ Len(r.users) <= MaxUsers
     /\ users' = r.users
     /\ res' = [Req("register", clock) EXCEPT !.inEmail = rawEmail,
                             !.inPassword = password,
                             !.status = IF r.error = NoError THEN 201 ELSE e.status,
                             !.message = r.error.message,
                             !.userId = r.userId, !.handlerRan = TRUE]
     /\ prevOp' = Summary(res)
     /\ UNCHANGED <<proc, client, calls, env, clock, nticks, issued>>

\* the response of POST /auth/login: sendSuccess(res, result, 200), or the
\* error middleware's answer to the error that loginUser threw
LoginResponse(us, e, now, rawEmail, password) ==
  LET r == loginUser(us, e, now, [email |-> toLowerCase(rawEmail), password |-> password])
      em == errorMiddleware(r.error)
  IN [Req("login", now) EXCEPT
        !.inEmail = rawEmail, !.inPassword = password,
        !.status = IF r.error = NoError THEN 200 ELSE em.status,
        !.message = r.error.message,
        !.accessToken = r.accessToken,
        !.refreshToken = r.refreshToken,
        !.userId = r.userId, !.handlerRan = TRUE,
        !.dropped = IF r.error = NoError THEN stored(us, r.userId) ELSE NoToken]

\* POST /auth/login: validateRequest(loginSchema), loginController
Login(rawEmail, password) ==
  LET input == [email |-> toLowerCase(rawEmail), password |-> password]
      r == loginUser(users, env, clock, input)
      out == IF r.error = NoError THEN {r.accessToken, r.refreshToken} ELSE {}
  IN /\ proc.state = "listening"
     /\ Cardinality(issued \cup out) <= MaxIssued
     /\ users' = r.users
     /\ issued' = issued \cup out
     /\ res' = LoginResponse(users, env, clock, rawEmail, password)
     /\ prevOp' = Summary(res)
     /\ UNCHANGED <<proc, client, calls, env, clock, nticks>>

\* the response of POST /auth/refresh
RefreshResponse(us, e, now, token) ==
  LET r == refreshAccessToken(us, e, now, [refreshToken |-> token])
      em == errorMiddleware(r.error)
  IN [Req("refresh", now) EXCEPT
        !.inToken = token,
        !.status = IF r.error = NoError THEN 200 ELSE em.status,
        !.message = r.error.message,
        !.accessToken = r.accessToken,
        !.userId = r.userId, !.handlerRan = TRUE]

\* a refresh endpoint that consumes the refresh token it accepts
RefreshOneTime(token) ==
  LET r == RefreshResponse(users, env, clock, token)
      out == IF r.status = 200 THEN {r.accessToken} ELSE {}
  IN /\ proc.state = "listening"
     /\ Cardinality(issued \cup out) <= MaxIssued
     /\ issued' = issued \cup out
     /\ users' = IF r.status = 200
                 THEN [users EXCEPT ![r.userId].refreshToken = NoToken] ELSE users
     /\ res' = r
     /\ prevOp' = Summary(res)
     /\ UNCHANGED <<proc, client, calls, env, clock, nticks>>

\* POST /auth/refresh: validateRequest(refreshTokenSchema), refreshTokenController
Refresh(token) ==
  LET r == RefreshResponse(users, env, clock, token)
      out == IF r.status = 200 THEN {r.accessToken} ELSE {}
  IN /\ proc.state = "listening"
     /\ Cardinality(issued \cup out) <= MaxIssued
     /\ issued' = issued \cup out
     /\ res' = r
     /\ prevOp' = Summary(res)
     /\ UNCHANGED <<proc, client, calls, env, users, clock, nticks>>

\* a logout that refuses an account without a stored fingerprint
LogoutOnce(h) ==
  LET a == authenticate(h, env, clock)
      userId == a.user.userId
      err == IF userId = 0 \/ stored(users, userId) = NoToken
             THEN Error(AUTH_ERRORS.UNAUTHORIZED) ELSE NoError
      e == errorMiddleware(err)
  IN /\ proc.state = "listening"
     /\ users' = IF a.next /\ err = NoError THEN logoutUser(users, userId) ELSE users
     /\ res' = [WithHeader("logout", h) EXCEPT
                  !.authed = a.next, !.handlerRan = a.next,
                  !.status = IF ~a.next THEN a.status
                             ELSE IF err = NoError THEN 200 ELSE e.status,
                  !.message = IF ~a.next THEN a.message ELSE err.message,
                  !.userId = a.user.userId,
                  !.dropped = IF a.next THEN stored(users, userId) ELSE NoToken]
     /\ prevOp' = Summary(res)
     /\ UNCHANGED <<proc, client, calls, env, clock, nticks, issued>>

\* POST /auth/logout: authenticate, logoutController
Logout(h) ==
  LET a == authenticate(h, env, clock)
      userId == a.user.userId
      \* logoutController: if (!userId) throw new Error(UNAUTHORIZED)
      err == IF userId = 0 THEN Error(AUTH_ERRORS.UNAUTHORIZED) ELSE NoError
      e == errorMiddleware(err)
  IN /\ proc.state = "listening"
     /\ users' = IF a.next /\ err = NoError THEN logoutUser(users, userId) ELSE users
     /\ res' = [WithHeader("logout", h) EXCEPT
                  !.authed = a.next, !.handlerRan = a.next,
                  !.status = IF ~a.next THEN a.status
                             ELSE IF err = NoError THEN 200 ELSE e.status,
                  !.message = IF ~a.next THEN a.message ELSE err.message,
                  !.userId = a.user.userId,
                  !.dropped = IF a.next THEN stored(users, userId) ELSE NoToken]
     /\ prevOp' = Summary(res)
     /\ UNCHANGED <<proc, client, calls, env, clock, nticks, issued>>

\* GET /auth/me: authenticate, getCurrentUserController
Me(h) ==
  LET a == authenticate(h, env, clock)
      userId == a.user.userId
      err == IF userId = 0 THEN Error(AUTH_ERRORS.UNAUTHORIZED)
             ELSE getUserById(users, userId)
      e == errorMiddleware(err)
  IN /\ proc.state = "listening"
     /\ res' = [WithHeader("me", h) EXCEPT
                  !.authed = a.next, !.handlerRan = a.next,
                  !.status = IF ~a.next THEN a.status
                             ELSE IF err = NoError THEN 200 ELSE e.status,
                  !.message = IF ~a.next THEN a.message ELSE err.message,
                  !.userId = a.user.userId]
     /\ prevOp' = Summary(res)
     /\ UNCHANGED <<proc, client, calls, env, users, clock, nticks, issued>>

\* a route declared as: authenticate, requireRole(r1, ..., rn), handler
\* (as requireSuperAdmin(), requireHR(), requireManager(), requireEmployee())
Guarded(h, roles) ==
  LET a == authenticate(h, env, clock)
      g == requireRole(RestArgs(roles), a.next, a.user)
  IN /\ proc.state = "listening"
     /\ res' = [WithHeader("guarded", h) EXCEPT
                  !.authed = a.next,
                  !.allowed = RestArgs(roles),
                  !.handlerRan = a.next /\ g.next,
                  !.status = IF ~a.next THEN a.status
                             ELSE IF ~g.next THEN g.status ELSE 200,
                  !.message = IF ~a.next THEN a.message ELSE g.message,
                  !.userId = a.user.userId]
     /\ prevOp' = Summary(res)
     /\ UNCHANGED <<proc, client, calls, env, users, clock, nticks, issued>>

\* a route declared as: requireRole(...), handler, with no authenticator in
\* front of it, so that req.user is undefined when requireRole runs
RoleOnly(h, allowedRoles) ==
  LET g == requireRole(allowedRoles, FALSE, NoUser)
  IN /\ proc.state = "listening"
     /\ res' = [WithHeader("roleOnly", h) EXCEPT
                  !.authed = FALSE,
                  !.allowed = allowedRoles,
                  !.handlerRan = g.next,
                  !.status = IF g.next THEN 200 ELSE g.status,
                  !.message = g.message]
     /\ prevOp' = Summary(res)
     /\ UNCHANGED <<proc, client, calls, env, users, clock, nticks, issued>>

\* requests to the admin HR router
AdminRequest(op, email, password, id, isActive) ==
  [op |-> op, email |-> email, password |-> password, id |-> id, isActive |-> isActive]
AdminRequests ==
  {AdminRequest("createHr", "b@x.io", "Passw0rd!", 0, TRUE),
   AdminRequest("listHr", "none", "none", 0, TRUE),
   AdminRequest("updateHrStatus", "none", "none", 2, FALSE)}

\* the admin HR router: router.use(authenticate),
\* router.use(requireRole([UserRole.SUPER_ADMIN])), then
\* POST / (createHr), GET / (listHr), PATCH /:id/status (updateHrStatus)
AdminHr(h, q) ==
  LET a == authenticate(h, env, clock)
      g == requireRole(adminHrAllowedRoles, a.next, a.user)
      ran == a.next /\ g.next
      r == IF q.op = "createHr"
           THEN createHrUser(users, [email |-> toLowerCase(q.email), password |-> q.password])
           ELSE IF q.op = "updateHrStatus"
           THEN updateHrStatus(users, q.id, [isActive |-> q.isActive])
           ELSE [error |-> NoError, users |-> users, userId |-> 0]
      e == errorMiddleware(r.error)
  IN /\ proc.state = "listening"
     /\ users' = IF ran THEN r.users ELSE users
     /\ res' = [WithHeader(q.op, h) EXCEPT
                  !.authed = a.next,
                  !.allowed = adminHrAllowedRoles,
                  !.handlerRan = ran,
                  !.status = IF ~a.next THEN a.status
                             ELSE IF ~g.next THEN g.status
                             ELSE IF r.error # NoError THEN e.status
                             ELSE IF q.op = "createHr" THEN 201 ELSE 200,
                  !.message = IF ~a.next THEN a.message
                              ELSE IF ~g.next THEN g.message ELSE r.error.message,
                  !.userId = a.user.userId]
     /\ prevOp' = Summary(res)
     /\ UNCHANGED <<proc, client, calls, env, clock, nticks, issued>>

\* createHrUser called as a service (administrative provisioning)
CreateHrUser(rawEmail, password) ==
  LET r == createHrUser(users, [email |-> toLowerCase(rawEmail), password |-> password])
  IN /\ Len(r.users) <= MaxUsers
     /\ users' = r.users
     /\ res' = [Req("svcCreateHr", clock) EXCEPT !.inEmail = rawEmail,
                             !.inPassword = password,
                             !.message = r.error.message, !.userId = r.userId,
                             !.handlerRan = TRUE]
     /\ prevOp' = Summary(res)
     /\ UNCHANGED <<proc, client, calls, env, clock, nticks, issued>>

\* updateHrStatus called as a service (status change of an account)
UpdateHrStatus(id, isActive) ==
  LET r == updateHrStatus(users, id, [isActive |-> isActive])
  IN /\ users' = r.users
     /\ res' = [Req("svcUpdateHrStatus", clock) EXCEPT
                             !.message = r.error.message, !.userId = r.userId,
                             !.handlerRan = TRUE,
                             !.wasActive = findById(users, id) /\ users[id].isActive]
     /\ prevOp' = Summary(res)
     /\ UNCHANGED <<proc, client, calls, env, clock, nticks, issued>>

(***************************************************************************)
(* registerUser and createHrUser step by step                               *)
(***************************************************************************)
\* message of the MongoServerError that the unique index on email raises
DUPLICATE_KEY == "E11000 duplicate key error collection: users index: email_1"

\* registerUser up to: await User.findOne({ email: input.email })
RegisterFind(p, rawEmail, password, role) ==
  /\ ~InFlight(p)
  /\ calls' = Start(p, [Idle EXCEPT !.op = "register", !.pc = "found",
                                    !.email = toLowerCase(rawEmail),
                                    !.password = password, !.role = role,
                                    !.doc = findOne(users, toLowerCase(rawEmail)),
                                    !.storeCalls = 1])
  /\ UNCHANGED <<proc, client, env, users, clock, nticks, issued, res, prevOp>>

\* createHrUser up to: await User.findOne({ email: input.email })
CreateHrFind(p, rawEmail, password) ==
  /\ ~InFlight(p)
  /\ calls' = Start(p, [Idle EXCEPT !.op = "createHr", !.pc = "found",
                                    !.email = toLowerCase(rawEmail),
                                    !.password = password, !.role = "HR",
                                    !.doc = findOne(users, toLowerCase(rawEmail)),
                                    !.storeCalls = 1])
  /\ UNCHANGED <<proc, client, env, users, clock, nticks, issued, res, prevOp>>

\* an insert into a collection that has no unique index on email
UserInsertNoIndex(p) ==
  LET c == calls[p]
      role == IF c.role = "undefined" THEN "EMPLOYEE" ELSE c.role
  IN /\ c.op \in {"register", "createHr"} /\ c.pc = "found"
     /\ IF c.doc # 0
        THEN /\ calls' = [calls EXCEPT ![p] =
                            [c EXCEPT !.pc = "done", !.error = Error(USER_EXISTS)]]
             /\ users' = users
        ELSE /\ Len(users) < MaxUsers
             /\ calls' = [calls EXCEPT ![p] =
                            [c EXCEPT !.pc = "done", !.doc = Len(users) + 1,
                                      !.order = NextOrder,
                                      !.storeCalls = c.storeCalls + 1]]
             /\ users' = UserCreate(users, c.email, c.password, role, TRUE)
     /\ UNCHANGED <<proc, client, env, clock, nticks, issued, res, prevOp>>

\* the rest of registerUser / createHrUser: if (existingUser) throw;
\* await User.create({...}): the insert is refused by the unique index
\* when a document with this email has been stored in the meantime
UserInsert(p) ==
  LET c == calls[p]
      role == IF c.role = "undefined" THEN "EMPLOYEE" ELSE c.role
  IN /\ c.op \in {"register", "createHr"} /\ c.pc = "found"
     /\ IF c.doc # 0
        THEN /\ calls' = [calls EXCEPT ![p] =
                            [c EXCEPT !.pc = "done", !.error = Error(USER_EXISTS)]]
             /\ users' = users
        ELSE IF findOne(users, c.email) # 0
        THEN /\ calls' = [calls EXCEPT ![p] =
                            [c EXCEPT !.pc = "done", !.error = Error(DUPLICATE_KEY),
                                      !.storeCalls = c.storeCalls + 1]]
             /\ users' = users
        ELSE /\ Len(users) < MaxUsers
             /\ calls' = [calls EXCEPT ![p] =
                            [c EXCEPT !.pc = "done", !.doc = Len(users) + 1,
                                      !.order = NextOrder,
                                      !.storeCalls = c.storeCalls + 1]]
             /\ users' = UserCreate(users, c.email, c.password, role, TRUE)
     /\ UNCHANGED <<proc, client, env, clock, nticks, issued, res, prevOp>>

(***************************************************************************)
(* loginUser step by step: the event loop may serve another request at      *)
(* every await                                                              *)
(***************************************************************************)
\* loginUser up to: await User.findOne({ email }).select('+password')
LoginFind(p, rawEmail, password) ==
  LET id == findOne(users, toLowerCase(rawEmail))
  IN /\ ~InFlight(p)
     /\ calls' = Start(p, [Idle EXCEPT !.op = "login", !.pc = "found",
                                       !.storeCalls = 1,
                                       !.email = toLowerCase(rawEmail),
                                       !.password = password, !.doc = id,
                                       !.snap = IF id = 0 THEN NoDoc ELSE users[id]])
     /\ UNCHANGED <<proc, client, env, users, clock, nticks, issued, res, prevOp>>

\* loginUser from the checks on the document read, over
\* await user.comparePassword, to the signing of both tokens and
\* user.refreshToken = refreshToken
LoginSign(p) ==
  LET c == calls[p]
      \* the collection as this call has seen it: the one document it read
      seen == [i \in 1..c.doc |-> IF i = c.doc THEN c.snap ELSE NoDoc]
      r == loginUser(seen, env, clock, [email |-> c.email, password |-> c.password])
  IN /\ c.op = "login" /\ c.pc = "found"
     /\ calls' = [calls EXCEPT ![p] =
                    IF r.error # NoError
                    THEN [c EXCEPT !.pc = "done", !.error = r.error]
                    ELSE [c EXCEPT !.pc = "signed", !.at = clock,
                                   !.accessToken = r.accessToken,
                                   !.refreshToken = r.refreshToken]]
     /\ UNCHANGED <<proc, client, env, users, clock, nticks, issued, res, prevOp>>

\* loginUser: await user.save() writes the modified path (refreshToken) of
\* the document, then the tokens are returned
LoginSave(p) ==
  LET c == calls[p]
  IN /\ c.op = "login" /\ c.pc = "signed"
     /\ Cardinality(issued \cup {c.accessToken, c.refreshToken}) <= MaxIssued
     /\ users' = [users EXCEPT ![c.doc].refreshToken = c.refreshToken]
     /\ issued' = issued \cup {c.accessToken, c.refreshToken}
     /\ calls' = [calls EXCEPT ![p] = [c EXCEPT !.pc = "done", !.order = NextOrder,
                                                !.storeCalls = c.storeCalls + 1]]
     /\ UNCHANGED <<proc, client, env, clock, nticks, res, prevOp>>

\* the session operations, on a store filled by Register and createHrUser
Next ==
  \/ \E d \in TickSteps : Tick(d)
  \/ \E q \in RegisterRequests : Register(q.email, q.password, q.role)
  \/ \E m \in RawEmails, p \in Passwords : Login(m, p)
  \/ \E t \in RefreshInputs : Refresh(t)
  \/ \E t \in issued \cup {Malformed} : Logout(Header("Bearer ", t))
  \/ CreateHrUser("A@x.io", "Passw0rd!")
  \/ \E id \in 1..(Len(users) + 1), b \in BOOLEAN : UpdateHrStatus(id, b)

Spec == Init /\ [][Next]_vars

(***************************************************************************)
(* The protected routes, on the store that scripts/seed.ts creates          *)
(***************************************************************************)
SeedPassword == "password123"
SeedUsers ==
  <<[email |-> "admin@hrportal.com", password |-> bcryptHash(SeedPassword),
     role |-> "SUPER_ADMIN", isActive |-> TRUE, refreshToken |-> NoToken],
    [email |-> "hr@hrportal.com", password |-> bcryptHash(SeedPassword),
     role |-> "HR", isActive |-> TRUE, refreshToken |-> NoToken],
    [email |-> "manager@hrportal.com", password |-> bcryptHash(SeedPassword),
     role |-> "MANAGER", isActive |-> TRUE, refreshToken |-> NoToken],
    [email |-> "employee@hrportal.com", password |-> bcryptHash(SeedPassword),
     role |-> "EMPLOYEE", isActive |-> TRUE, refreshToken |-> NoToken]>>

\* tokens of the login of seeded user i at second 0
SeedAccess(e, i) ==
  generateAccessToken(e, [userId |-> i, email |-> SeedUsers[i].email,
                          role |-> SeedUsers[i].role], 0)
SeedRefresh(e, i) == generateRefreshToken(e, i, 0)

\* the seeded store after every seeded user has logged in once at second 0
InitGate ==
  /\ env = [JWT_SECRET |-> SecretA, JWT_REFRESH_SECRET |-> SecretB]
  /\ users = [i \in 1..Len(SeedUsers) |->
                [SeedUsers[i] EXCEPT !.refreshToken = SeedRefresh(env, i)]]
  /\ clock = 0
  /\ nticks = 0
  /\ issued = {SeedAccess(env, i) : i \in 1..Len(SeedUsers)}
              \cup {SeedRefresh(env, i) : i \in 1..Len(SeedUsers)}
  /\ res = NoRes
  /\ prevOp = Summary(NoRes)
  /\ calls = [p \in Procs |-> Idle]
  /\ proc = Running(env)
  /\ client = NoClient

\* Authorization headers sent to the protected routes: none, a bearer token
\* (issued access token, one issued refresh token, forged, malformed), and
\* issued access tokens under another scheme
GateHeaders ==
  {NoHeader}
  \cup {Header("Bearer ", t) : t \in {u \in issued : u.role # "none"}}
  \cup {Header("Bearer ", t) : t \in {Malformed, SeedRefresh(env, 1),
          Jwt(ForeignKey, 1, SeedUsers[1].email, "SUPER_ADMIN", clock, ACCESS_TOKEN)}}
  \cup {Header("Basic ", t) : t \in {u \in issued : u.role # "none"}}

NextGate ==
  \/ \E d \in GateTickSteps : Tick(d)
  \/ \E h \in GateHeaders : Logout(h)
  \/ \E h \in GateHeaders : Me(h)
  \/ \E h \in GateHeaders, q \in AdminRequests : AdminHr(h, q)
  \/ \E b \in BOOLEAN : UpdateHrStatus(2, b)

SpecGate == InitGate /\ [][NextGate]_vars

(***************************************************************************)
(* Service calls whose MongoDB query fails                                  *)
(***************************************************************************)
\* the error with which a mongoose query rejects when MongoDB is unreachable
StoreError == Error("MongoNetworkError: connection timed out")

\* a catch block that reports every error as an invalid refresh token
refreshCatchAll(cls, error) == Error(AUTH_ERRORS.REFRESH_TOKEN_INVALID)

\* refreshAccessToken, catch (error): errors of jsonwebtoken become
\* "Invalid refresh token", any other error is thrown on
refreshCatch(cls, error) ==
  IF instanceof(cls, "JsonWebTokenError")
  THEN Error(AUTH_ERRORS.REFRESH_TOKEN_INVALID)
  ELSE error

\* loginUser / registerUser / createHrUser whose first query,
\* await User.findOne(...), rejects: nothing catches the error
FirstQueryFails(p, op, rawEmail, password) ==
  /\ ~InFlight(p)
  /\ calls' = Start(p, [Idle EXCEPT !.op = op, !.email = toLowerCase(rawEmail),
                                    !.password = password, !.storeCalls = 1,
                                    !.fault = TRUE, !.error = StoreError])
  /\ UNCHANGED <<proc, client, env, users, clock, nticks, issued, res, prevOp>>

\* loginUser whose await user.save() rejects, registerUser / createHrUser
\* whose await User.create(...) rejects: nothing catches the error, the
\* tokens already signed are not returned
NextQueryFails(p) ==
  LET c == calls[p]
  IN /\ \/ c.op = "login" /\ c.pc = "signed"
        \/ c.op \in {"register", "createHr"} /\ c.pc = "found" /\ c.doc = 0
     /\ calls' = [calls EXCEPT ![p] =
                    [c EXCEPT !.pc = "done", !.fault = TRUE, !.error = StoreError,
                              !.storeCalls = c.storeCalls + 1,
                              !.accessToken = NoToken, !.refreshToken = NoToken]]
     /\ UNCHANGED <<proc, client, env, users, clock, nticks, issued, res, prevOp>>

\* refreshAccessToken(input) as one step; up tells whether MongoDB answers
\* the one query, User.findById, which is sent when jwt.verify has passed
RefreshCall(p, token, up) ==
  LET r == refreshAccessToken(users, env, clock, [refreshToken |-> token])
      queried == jwtVerify(token, env.JWT_REFRESH_SECRET, clock) = "ok"
      c == [Idle EXCEPT !.op = "refresh", !.inToken = token,
                        !.storeCalls = IF queried THEN 1 ELSE 0]
      out == IF r.error = NoError THEN {r.accessToken} ELSE {}
  IN /\ ~InFlight(p)
     /\ IF queried /\ ~up
        THEN /\ calls' = Start(p, [c EXCEPT !.fault = TRUE,
                                            !.error = refreshCatch("MongoError", StoreError)])
             /\ issued' = issued
        ELSE /\ Cardinality(issued \cup out) <= MaxIssued
             /\ calls' = Start(p, [c EXCEPT !.error = r.error, !.doc = r.userId,
                                            !.at = clock,
                                            !.accessToken = r.accessToken])
             /\ issued' = issued \cup out
     /\ UNCHANGED <<proc, client, env, users, clock, nticks, res, prevOp>>

\* logoutUser(userId) as one step; up tells whether MongoDB answers
\* User.findByIdAndUpdate
LogoutCall(p, userId, up) ==
  LET c == [Idle EXCEPT !.op = "logout", !.doc = userId, !.storeCalls = 1]
  IN /\ ~InFlight(p)
     /\ IF up
        THEN /\ calls' = [q \in Procs |->
                            IF q # p /\ InFlight(q) /\ calls[q].op = "login"
                               /\ calls[q].doc = userId
                            THEN [Start(p, c)[q] EXCEPT !.loggedOut = TRUE]
                            ELSE Start(p, [c EXCEPT !.order = NextOrder])[q]]
             /\ users' = logoutUser(users, userId)
        ELSE /\ calls' = Start(p, [c EXCEPT !.fault = TRUE, !.error = StoreError])
             /\ users' = users
     /\ UNCHANGED <<proc, client, env, clock, nticks, issued, res, prevOp>>

\* the seeded store, before anybody has logged in
InitRace ==
  /\ env = [JWT_SECRET |-> SecretA, JWT_REFRESH_SECRET |-> SecretB]
  /\ users = SeedUsers
  /\ clock = 0
  /\ nticks = 0
  /\ issued = {}
  /\ res = NoRes
  /\ prevOp = Summary(NoRes)
  /\ calls = [p \in Procs |-> Idle]
  /\ proc = Running(env)
  /\ client = NoClient

\* credentials typed by the clients of the seeded store
RaceEmails == {"hr@hrportal.com", "admin@hrportal.com"}
RacePasswords == {SeedPassword, "letmein"}

\* logins served concurrently
NextRace ==
  \/ Tick(1)
  \/ \E p \in Procs, m \in RaceEmails, w \in RacePasswords : LoginFind(p, m, w)
  \/ \E p \in Procs : LoginSign(p)
  \/ \E p \in Procs : LoginSave(p)

SpecRace == InitRace /\ [][NextRace]_vars

\* logins of the seeded HR account served concurrently with its logouts
\* and with changes of its status
NextSession ==
  \/ Tick(1)
  \/ \E p \in Procs, w \in RacePasswords : LoginFind(p, "hr@hrportal.com", w)
  \/ \E p \in Procs : LoginSign(p)
  \/ \E p \in Procs : LoginSave(p)
  \/ \E p \in Procs : LogoutCall(p, 2, TRUE)
  \/ \E b \in BOOLEAN : UpdateHrStatus(2, b)

SpecSession == InitRace /\ [][NextSession]_vars

\* the seeded users that have logged in when the requests below arrive
LoggedIn == {1, 2}

\* the seeded store after the users in LoggedIn have logged in once at
\* second 0, in a process started with any environment that envSchema lets
\* through
InitEnv ==
  /\ env \in Configurations
  /\ users = [i \in 1..Len(SeedUsers) |->
                IF i \in LoggedIn
                THEN [SeedUsers[i] EXCEPT !.refreshToken = SeedRefresh(env, i)]
                ELSE SeedUsers[i]]
  /\ clock = 0
  /\ nticks = 0
  /\ issued = {SeedAccess(env, i) : i \in LoggedIn}
              \cup {SeedRefresh(env, i) : i \in LoggedIn}
  /\ res = NoRes
  /\ prevOp = Summary(NoRes)
  /\ calls = [p \in Procs |-> Idle]
  /\ proc = Running(env)
  /\ client = NoClient

\* tokens of either kind sent to the protected routes and to the refresh
\* endpoint
NextEnv ==
  \/ \E t \in issued : Me(Header("Bearer ", t))
  \/ \E t \in issued : Logout(Header("Bearer ", t))
  \/ \E t \in issued : Refresh(t)

SpecEnv == InitEnv /\ [][NextEnv]_vars

\* e-mail addresses sent to the two account-creating operations: the same
\* address in two spellings, and another one
NewEmails == {"A@x.io", "a@x.io", "b@x.io"}

\* registrations and HR creations served concurrently, on an empty store
NextReg ==
  \/ \E p \in Procs, m \in NewEmails, r \in {"undefined", "HR"} :
       RegisterFind(p, m, "Passw0rd!", r)
  \/ \E p \in Procs, m \in NewEmails : CreateHrFind(p, m, "Secr3t#Key")
  \/ \E p \in Procs : UserInsert(p)

SpecReg == Init /\ [][NextReg]_vars

\* the seeded store after the users in LoggedIn have logged in at second 0
InitFault ==
  /\ InitEnv
  /\ env = [JWT_SECRET |-> SecretA, JWT_REFRESH_SECRET |-> SecretB]

\* one request at a time, each of whose queries MongoDB may fail to answer
NextFault ==
  \/ Tick(1)
  \/ \E m \in RaceEmails, w \in RacePasswords : LoginFind(1, m, w)
  \/ LoginSign(1)
  \/ LoginSave(1)
  \/ \E m \in {"hr@hrportal.com", "b@x.io"} : RegisterFind(1, m, "Passw0rd!", "undefined")
  \/ \E m \in {"hr@hrportal.com", "b@x.io"} : CreateHrFind(1, m, "Secr3t#Key")
  \/ UserInsert(1)
  \/ \E op \in {"login", "register", "createHr"} :
       FirstQueryFails(1, op, "hr@hrportal.com", SeedPassword)
  \/ NextQueryFails(1)
  \/ \E t \in issued \cup {Malformed}, up \in BOOLEAN : RefreshCall(1, t, up)
  \/ \E id \in LoggedIn, up \in BOOLEAN : LogoutCall(1, id, up)

SpecFault == InitFault /\ [][NextFault]_vars

(***************************************************************************)
(* Process start: config/env is evaluated on import, then startServer       *)
(***************************************************************************)
\* the values that JWT_SECRET / JWT_REFRESH_SECRET may have in process.env
\* after dotenv.config()
EnvValues == {Unset, Set(""), Set(ShortSecret), Set(SecretA), Set(SecretB)}
ProcessEnvs == [JWT_SECRET : EnvValues, JWT_REFRESH_SECRET : EnvValues]

\* envSchema.parse(process.env): z.string() refuses an unset variable,
\* .min(32) a shorter string; the parsed object when both pass
envParse(penv) ==
  LET cfg == [JWT_SECRET |-> penv.JWT_SECRET.value,
              JWT_REFRESH_SECRET |-> penv.JWT_REFRESH_SECRET.value]
  IN [ok |-> penv.JWT_SECRET.set /\ penv.JWT_REFRESH_SECRET.set /\ envSchema(cfg),
      value |-> cfg]

\* the binding "let env" of config/env before the assignment
Unassigned == [JWT_SECRET |-> "", JWT_REFRESH_SECRET |-> ""]

\* config/env: try { env = envSchema.parse(process.env) }
\* catch (ZodError) { ...; process.exit(1) }
LoadEnv ==
  LET r == envParse(proc.env)
  IN /\ proc.state = "starting"
     /\ IF r.ok
        THEN /\ env' = r.value
             /\ proc' = [proc EXCEPT !.state = "loaded"]
        ELSE /\ env' = env
             /\ proc' = [proc EXCEPT !.state = "exited"]
     /\ UNCHANGED <<users, clock, nticks, issued, res, prevOp, calls, client>>

\* startServer(): await connectDatabase(); createApp(); app.listen(...);
\* catch: process.exit(1). up tells whether MongoDB can be connected to
StartServer(up) ==
  /\ proc.state = "loaded"
  /\ proc' = [proc EXCEPT !.state = IF up THEN "listening" ELSE "exited"]
  /\ UNCHANGED <<env, users, clock, nticks, issued, res, prevOp, calls, client>>

\* a process about to start on the seeded store, with any process.env
InitBoot ==
  /\ env = Unassigned
  /\ users = SeedUsers
  /\ clock = 0
  /\ nticks = 0
  /\ issued = {}
  /\ res = NoRes
  /\ prevOp = Summary(NoRes)
  /\ calls = [p \in Procs |-> Idle]
  /\ proc \in [state : {"starting"}, env : ProcessEnvs]
  /\ client = NoClient

\* the start of the process and the requests sent to it
NextBoot ==
  \/ LoadEnv
  \/ \E up \in BOOLEAN : StartServer(up)
  \/ \E m \in RaceEmails : Login(m, SeedPassword)
  \/ \E t \in issued \cup {Malformed} : Me(Header("Bearer ", t))
  \/ \E t \in issued : Refresh(t)

SpecBoot == InitBoot /\ [][NextBoot]_vars

(***************************************************************************)
(* Frontend: auth slice, apiClient, App                                     *)
(***************************************************************************)
\* the Authorization header that apiClient sends for a default header value
AuthHeader(token) == IF token = NoToken THEN NoHeader ELSE Header("Bearer ", token)

\* the answer of GET /auth/me to a request with header h: authenticate,
\* getCurrentUserController, errorMiddleware
MeAnswer(h) ==
  LET a == authenticate(h, env, clock)
      userId == a.user.userId
      err == IF userId = 0 THEN Error(AUTH_ERRORS.UNAUTHORIZED)
             ELSE getUserById(users, userId)
  IN [status |-> IF ~a.next THEN a.status
                 ELSE IF err = NoError THEN 200 ELSE errorMiddleware(err).status,
      userId |-> IF a.next /\ err = NoError THEN userId ELSE 0]

\* the module code of the auth slice and the mount of App on a page load at
\* path: initialState takes the token from localStorage, the default header
\* is set when there is one, and the effect of App dispatches
\* getCurrentUser, which sends GET /auth/me (getCurrentUser.pending)
pageLoad(c, path) ==
  [c EXCEPT !.open = TRUE, !.path = path,
            !.isAuthenticated = FALSE, !.user = 0,
            !.accessToken = c.localStorage,
            !.header = c.localStorage,
            !.loading = TRUE,
            !.me = [NoRequest EXCEPT !.state = "sent", !.header = c.localStorage]]

\* the response interceptor of apiClient on an answer with this status at
\* window.location.pathname = path: on 401 the default header and the
\* stored token are removed; redirect tells whether window.location.href
\* is set to '/login'
responseInterceptor(c, status) ==
  IF status = 401
  THEN [client |-> [c EXCEPT !.header = NoToken, !.localStorage = NoToken],
        redirect |-> c.path # "/login"]
  ELSE [client |-> c, redirect |-> FALSE]

\* reducers of the auth slice
clearAuthState(c) ==
  [c EXCEPT !.isAuthenticated = FALSE, !.user = 0, !.accessToken = NoToken,
            !.localStorage = NoToken, !.header = NoToken]

loginUserFulfilled(c, payload) ==
  [c EXCEPT !.loading = FALSE, !.isAuthenticated = TRUE, !.user = payload.user,
            !.accessToken = payload.accessToken,
            !.localStorage = payload.accessToken,
            !.header = payload.accessToken]

loginUserRejected(c) == [c EXCEPT !.loading = FALSE, !.isAuthenticated = FALSE]

getCurrentUserFulfilled(c, user) ==
  LET restore == c.accessToken = NoToken /\ c.localStorage # NoToken
  IN [c EXCEPT !.loading = FALSE, !.isAuthenticated = TRUE, !.user = user,
               !.accessToken = IF restore THEN c.localStorage ELSE c.accessToken,
               !.header = IF restore THEN c.localStorage ELSE c.header]

getCurrentUserRejected(c) ==
  [c EXCEPT !.loading = FALSE, !.isAuthenticated = FALSE, !.user = 0]

logoutUserFulfilled(c) ==
  [c EXCEPT !.isAuthenticated = FALSE, !.user = 0, !.accessToken = NoToken,
            !.localStorage = NoToken]

\* handleLogin / DashboardRedirect: the dashboard of a role
ProtectedPaths == {"/admin", "/hr", "/employee"}
dashboardOf(role) ==
  IF role = "SUPER_ADMIN" THEN "/admin"
  ELSE IF role = "HR" THEN "/hr"
  ELSE "/employee"

\* the routes of App as rendered for the auth state: "/" sends an
\* authenticated user to the dashboard, ProtectedRoute sends an
\* unauthenticated user to /login once loading is over
Routes(c) ==
  IF c.path = "/" /\ c.isAuthenticated
  THEN [c EXCEPT !.path = dashboardOf(users[c.user].role)]
  ELSE IF c.path \in ProtectedPaths /\ ~c.loading /\ ~c.isAuthenticated
  THEN [c EXCEPT !.path = "/login"]
  ELSE c

\* the user opens the application at path
AppMount(path) ==
  /\ proc.state = "listening"
  /\ ~client.open
  /\ client' = [Routes(pageLoad(client, path)) EXCEPT !.event = "load"]
  /\ UNCHANGED <<proc, calls, env, users, clock, nticks, issued, res, prevOp>>

\* the request GET /auth/me in flight reaches the server and is answered;
\* up tells whether request and answer get through the network
GetCurrentUserAnswer(up) ==
  LET a == MeAnswer(AuthHeader(client.me.header))
  IN /\ proc.state = "listening"
     /\ client.open /\ client.me.state = "sent"
     /\ client' = [client EXCEPT !.me.state = "answered",
                                  !.me.status = IF up THEN a.status ELSE 0,
                                  !.me.userId = IF up THEN a.userId ELSE 0]
     /\ UNCHANGED <<proc, calls, env, users, clock, nticks, issued, res, prevOp>>

\* the answer arrives: response interceptor, then the thunk settles
\* (getCurrentUser.fulfilled / getCurrentUser.rejected), the routes are
\* rendered, and the page is loaded anew at /login when the interceptor has
\* set window.location.href
GetCurrentUserSettle ==
  LET m == client.me
      i == responseInterceptor(client, m.status)
      r == IF m.status = 200 THEN getCurrentUserFulfilled(i.client, m.userId)
           ELSE getCurrentUserRejected(i.client)
      tokenRefused == m.status = 401 /\ m.header = client.accessToken
      c == [Routes(r) EXCEPT !.me = NoRequest, !.last = m,
                             !.event = IF m.status = 200 THEN "meFulfilled"
                                       ELSE "meRejected",
                             !.session = client.session /\ ~tokenRefused]
  IN /\ client.open /\ m.state = "answered"
     /\ client' = IF i.redirect THEN pageLoad(c, "/login") ELSE c
     /\ UNCHANGED <<proc, calls, env, users, clock, nticks, issued, res, prevOp>>

\* LoginForm submit: handleLogin dispatches loginUser, POST /auth/login is
\* answered, the thunk settles and handleLogin navigates by role
HandleLogin(rawEmail, password) ==
  LET input == [email |-> toLowerCase(rawEmail), password |-> password]
      r == loginUser(users, env, clock, input)
      out == IF r.error = NoError THEN {r.accessToken, r.refreshToken} ELSE {}
      status == IF r.error = NoError THEN 200 ELSE errorMiddleware(r.error).status
      i == responseInterceptor(client, status)
      c == IF status = 200
           THEN [loginUserFulfilled(i.client, [user |-> r.userId,
                                               accessToken |-> r.accessToken])
                   EXCEPT !.path = dashboardOf(users[r.userId].role),
                          !.session = TRUE,
                          !.me.stale = client.me.state # "none"]
           ELSE loginUserRejected(i.client)
  IN /\ proc.state = "listening"
     /\ client.open /\ ~client.isAuthenticated /\ client.path \in {"/", "/login"}
     /\ Cardinality(issued \cup out) <= MaxIssued
     /\ users' = r.users
     /\ issued' = issued \cup out
     /\ client' = [(IF i.redirect THEN pageLoad(c, "/login") ELSE Routes(c))
                     EXCEPT !.event = IF status = 200 THEN "loginFulfilled"
                                      ELSE "loginRejected"]
     /\ UNCHANGED <<proc, calls, env, clock, nticks, res, prevOp>>

\* the user clicks logout: handleLogout dispatches logoutUser, which awaits
\* POST /auth/logout (sent with the default header; up tells whether it
\* gets through the network), ignores its failure, dispatches
\* clearAuthState and is fulfilled; then navigate('/login')
HandleLogout(up) ==
  LET a == authenticate(AuthHeader(client.header), env, clock)
      status == IF ~up THEN 0 ELSE IF a.next THEN 200 ELSE a.status
      i == responseInterceptor(client, status)
      c == [logoutUserFulfilled(clearAuthState(i.client))
              EXCEPT !.path = "/login", !.session = FALSE,
                     !.subject = client.user, !.event = "logout"]
  IN /\ proc.state = "listening"
     /\ client.open /\ client.isAuthenticated
     /\ users' = IF up /\ a.next THEN logoutUser(users, a.user.userId) ELSE users
     /\ client' = IF i.redirect
                   THEN [pageLoad(c, "/login") EXCEPT !.event = "logout"]
                   ELSE c
     /\ UNCHANGED <<proc, calls, env, clock, nticks, issued, res, prevOp>>

\* the tokens of the session of seeded user 2 that began at second 0
PreviousSession == {SeedAccess(env, 2), SeedRefresh(env, 2)}

\* the seeded store after that session has begun, and a browser, closed,
\* that holds its access token in localStorage or holds none
InitFront ==
  /\ env = [JWT_SECRET |-> SecretA, JWT_REFRESH_SECRET |-> SecretB]
  /\ users = [SeedUsers EXCEPT ![2].refreshToken = SeedRefresh(env, 2)]
  /\ clock = 0
  /\ nticks = 0
  /\ issued = PreviousSession
  /\ res = NoRes
  /\ prevOp = Summary(NoRes)
  /\ calls = [p \in Procs |-> Idle]
  /\ proc = Running(env)
  /\ \E t \in {NoToken, SeedAccess(env, 2)} :
        client = [NoClient EXCEPT !.localStorage = t]

\* one user at the browser, the clock, and an administrator who changes the
\* status of account 2
NextFront ==
  \/ \E d \in GateTickSteps : Tick(d)
  \/ \E path \in {"/", "/login", "/hr"} : AppMount(path)
  \/ \E up \in BOOLEAN : GetCurrentUserAnswer(up)
  \/ GetCurrentUserSettle
  \/ \E w \in RacePasswords : HandleLogin("hr@hrportal.com", w)
  \/ \E up \in BOOLEAN : HandleLogout(up)
  \/ \E b \in BOOLEAN : UpdateHrStatus(2, b)

SpecFront == InitFront /\ [][NextFront]_vars

\* routes guarded by requireRole(...roles), for every allow-list
NextRbac ==
  \/ \E h \in GateHeaders, roles \in SUBSET UserRole : Guarded(h, roles)
  \/ \E h \in GateHeaders, roles \in SUBSET UserRole : RoleOnly(h, RestArgs(roles))
  \/ \E h \in GateHeaders : RoleOnly(h, adminHrAllowedRoles)

SpecRbac == InitGate /\ [][NextRbac]_vars

(***************************************************************************)
(* Properties                                                               *)
(***************************************************************************)
\* _id of the account whose e-mail a login request names, 0 if none
accountOf(rawEmail) == findOne(users, toLowerCase(rawEmail))

\* C1: a login with the e-mail and the password of a stored active account
\* succeeds, and the access token it returns verifies under the access
\* secret to claims whose userId, email and role are that account's.
C1_LoginReturnsAccountClaims ==
  (res.op = "login" /\ accountOf(res.inEmail) # 0) =>
    LET id == accountOf(res.inEmail) IN
      (users[id].isActive /\ comparePassword(users[id], res.inPassword)) =>
        /\ res.status = 200
        /\ jwtVerify(res.accessToken, env.JWT_SECRET, clock) = "ok"
        /\ decoded(res.accessToken) =
             [userId |-> id, email |-> users[id].email, role |-> users[id].role]

C1_Witness ==
  /\ res.op = "login" /\ res.status = 200
  /\ accountOf(res.inEmail) # 0
  /\ users[accountOf(res.inEmail)].role = "HR"
  /\ res.inEmail # users[accountOf(res.inEmail)].email
  /\ decoded(res.accessToken).role = "HR"

\* the part of a response that the client sees
Body(r) ==
  [status |-> r.status, message |-> r.message, accessToken |-> r.accessToken,
   refreshToken |-> r.refreshToken]

\* an e-mail address that no account has
UnknownEmail == "nobody@x.io"

\* what POST /auth/login answers now to these credentials
LoginNow(rawEmail, password) == LoginResponse(users, env, clock, rawEmail, password)

\* what POST /auth/refresh answers now to this token
RefreshNow(token) == RefreshResponse(users, env, clock, token)

C3_SupersededTokenRejected ==
  (prevOp.op = "login" /\ res.op = "refresh" /\ res.inToken = prevOp.dropped) =>
    res.message = AUTH_ERRORS.REFRESH_TOKEN_INVALID

\* C4: a refresh that directly follows a logout and presents the token the
\* logout has just cleared fails and returns no token; for an active
\* account (as in register, login, logout) it fails with "Invalid refresh
\* token".
C4_RefreshAfterLogoutFails ==
  (prevOp.op = "logout" /\ res.op = "refresh" /\ res.inToken = prevOp.dropped) =>
    /\ res.status # 200
    /\ res.accessToken = NoToken
    /\ res.message \in {AUTH_ERRORS.REFRESH_TOKEN_INVALID, AUTH_ERRORS.USER_INACTIVE}
    /\ users[prevOp.dropped.userId].isActive =>
         res.message = AUTH_ERRORS.REFRESH_TOKEN_INVALID

C4_Witness ==
  /\ prevOp.op = "logout" /\ res.op = "refresh" /\ res.inToken = prevOp.dropped
  /\ jwtVerify(res.inToken, env.JWT_REFRESH_SECRET, clock) = "ok"
  /\ users[prevOp.dropped.userId].isActive
  /\ res.message = AUTH_ERRORS.REFRESH_TOKEN_INVALID

\* token strings tried against POST /auth/refresh
Candidates ==
  issued \cup RefreshInputs \cup {users[i].refreshToken : i \in 1..Len(users)}

\* POST /auth/refresh accepts the token for the account
Accepts(token, id) == RefreshNow(token).status = 200 /\ RefreshNow(token).userId = id

\* C5: in every reachable state the only token that a refresh accepts for
\* an account is the account's stored fingerprint, and after a successful
\* login the stored fingerprint is the refresh token that login returned.
C5_AtMostOneLiveRefreshToken ==
  /\ \A id \in 1..Len(users), t \in Candidates :
       Accepts(t, id) => t = users[id].refreshToken
  /\ (res.op = "login" /\ res.status = 200) =>
       users[res.userId].refreshToken = res.refreshToken

C5_Witness ==
  /\ res.op = "login" /\ res.status = 200
  /\ res.dropped # NoToken /\ res.dropped # res.refreshToken
  /\ jwtVerify(res.dropped, env.JWT_REFRESH_SECRET, clock) = "ok"
  /\ Accepts(res.refreshToken, res.userId)
  /\ ~Accepts(res.dropped, res.userId)

\* C6: while an account is inactive, a login with its correct password and
\* a refresh with its stored, validly signed, unexpired refresh token both
\* fail with "Account is inactive" and return no token.
C6_InactiveAccountRejected ==
  /\ \A id \in 1..Len(users), pw \in Passwords :
       (~users[id].isActive /\ comparePassword(users[id], pw)) =>
         /\ LoginNow(users[id].email, pw).message = AUTH_ERRORS.USER_INACTIVE
         /\ LoginNow(users[id].email, pw).status # 200
         /\ LoginNow(users[id].email, pw).accessToken = NoToken
         /\ LoginNow(users[id].email, pw).refreshToken = NoToken
  /\ \A id \in 1..Len(users) :
       (/\ ~users[id].isActive
        /\ jwtVerify(users[id].refreshToken, env.JWT_REFRESH_SECRET, clock) = "ok") =>
         /\ RefreshNow(users[id].refreshToken).message = AUTH_ERRORS.USER_INACTIVE
         /\ RefreshNow(users[id].refreshToken).status # 200
         /\ RefreshNow(users[id].refreshToken).accessToken = NoToken
  /\ (res.op \in {"login", "refresh"} /\ res.message = AUTH_ERRORS.USER_INACTIVE) =>
       res.accessToken = NoToken /\ res.refreshToken = NoToken /\ res.status # 200

C6_Witness ==
  /\ res.op = "refresh" /\ res.message = AUTH_ERRORS.USER_INACTIVE
  /\ findById(users, res.inToken.userId)
  /\ ~users[res.inToken.userId].isActive
  /\ res.inToken = users[res.inToken.userId].refreshToken
  /\ jwtVerify(res.inToken, env.JWT_REFRESH_SECRET, clock) = "ok"

\* the role names of an allow-list given as requireRole(r1, ..., rn)
roleNames(allowedRoles) == {a.str : a \in {b \in allowedRoles : b.tag = "string"}}

AdminOps == {"createHr", "listHr", "updateHrStatus"}

\* C8 (as claimed): every admin HR operation is reached by a request with a
\* valid access token whose role is SUPER_ADMIN and answers 403
\* "Insufficient permissions" to a valid access token of any other role.
C8_AdminHrSuperAdminOnly ==
  (res.op \in AdminOps /\ res.authed) =>
    /\ res.inToken.role = "SUPER_ADMIN" => res.handlerRan /\ res.status # 403
    /\ res.inToken.role # "SUPER_ADMIN" =>
         ~res.handlerRan /\ res.status = 403 /\ res.message = AUTH_ERRORS.FORBIDDEN

\* the operations behind the request authenticator
GateOps == {"logout", "me"} \cup AdminOps

\* C9: a protected handler runs only when the Authorization header is
\* "Bearer " followed by a token that verifies under the access secret and
\* is unexpired at the time of the request; a request without the header or
\* with another scheme is answered 401 "Unauthorized access" and reaches no
\* handler.
C9_NoDefaultAllow ==
  res.op \in GateOps =>
    /\ res.handlerRan => res.authed
    /\ res.authed =>
         /\ res.scheme = "Bearer "
         /\ res.inToken.wellFormed
         /\ res.inToken.key = env.JWT_SECRET
         /\ clock < res.inToken.exp
         /\ jwtVerify(res.inToken, env.JWT_SECRET, clock) = "ok"
    /\ res.scheme # "Bearer " =>
         /\ ~res.authed /\ ~res.handlerRan
         /\ res.status = 401 /\ res.message = AUTH_ERRORS.UNAUTHORIZED

C9_Witness ==
  /\ res.op = "logout" /\ res.handlerRan /\ res.status = 200
  /\ res.scheme = "Bearer "
  /\ clock > 0 /\ clock < res.inToken.exp
  /\ res.dropped # NoToken
  /\ users[res.userId].refreshToken = NoToken

\* C10 (as claimed): an access token that is validly signed but expired is
\* answered with "Token has expired", which differs from the "Invalid
\* token" answer to a malformed or badly signed token.
C10_ExpiredTokenDistinguished ==
  (/\ res.op \in GateOps /\ res.scheme = "Bearer "
   /\ res.inToken.wellFormed /\ res.inToken.key = env.JWT_SECRET
   /\ clock >= res.inToken.exp) =>
    /\ res.message = AUTH_ERRORS.TOKEN_EXPIRED
    /\ res.message # AUTH_ERRORS.TOKEN_INVALID

\* C11: when requireRole runs on a request without verified claims
\* (req.user undefined), whatever the allow-list and whatever header the
\* request carries, the answer is 401 "Unauthorized access", never 403, and
\* the handler is not called.
C11_NoClaimsIsUnauthorized ==
  res.op = "roleOnly" =>
    /\ res.status = 401
    /\ res.message = AUTH_ERRORS.UNAUTHORIZED
    /\ res.status # 403 /\ res.message # AUTH_ERRORS.FORBIDDEN
    /\ ~res.handlerRan

C11_Witness ==
  /\ res.op = "roleOnly"
  /\ res.allowed = requireEmployee
  /\ res.scheme = "Bearer "
  /\ jwtVerify(res.inToken, env.JWT_SECRET, clock) = "ok"
  /\ res.inToken.role = "SUPER_ADMIN"
  /\ res.status = 401

\* C12: a refresh whose token does not verify under the refresh secret
\* (malformed, signed with another key, or expired) is answered "Invalid
\* refresh token", returns no access token and leaves every account as it
\* was.
C12_BadRefreshTokenRejected ==
  [][(/\ res'.op = "refresh"
      /\ jwtVerify(res'.inToken, env'.JWT_REFRESH_SECRET, clock') # "ok") =>
        /\ res'.message = AUTH_ERRORS.REFRESH_TOKEN_INVALID
        /\ res'.status # 200
        /\ res'.accessToken = NoToken
        /\ users' = users
        /\ issued' = issued]_vars

C12_Witness ==
  /\ res.op = "refresh"
  /\ findById(users, res.inToken.userId)
  /\ users[res.inToken.userId].isActive
  /\ res.inToken = users[res.inToken.userId].refreshToken
  /\ jwtVerify(res.inToken, env.JWT_REFRESH_SECRET, clock) = "TokenExpiredError"
  /\ res.message = AUTH_ERRORS.REFRESH_TOKEN_INVALID

\* C13 (as claimed): once a refresh with a token has succeeded, the same
\* token is accepted by a refresh after any following step, as long as the
\* token has not expired and the step is not a login or a logout.
C13_AcceptedUntilExpiryLoginLogout ==
  [][(/\ res.op = "refresh" /\ res.status = 200
      /\ res'.op \notin {"login", "logout"}
      /\ jwtVerify(res.inToken, env'.JWT_REFRESH_SECRET, clock') = "ok") =>
        RefreshResponse(users', env', clock', res.inToken).status = 200]_vars

\* C13 (amended): a successful refresh returns a freshly signed access token
\* and no refresh token and changes no account; and in every state the
\* stored fingerprint of an active account, while unexpired, is accepted by
\* a refresh, so the same refresh token stays usable until it expires, a
\* login or logout replaces or clears it, or the account is deactivated.
C13_NoRotationOnRefresh ==
  [][/\ (res'.op = "refresh" /\ res'.status = 200) =>
          /\ users' = users
          /\ res'.refreshToken = NoToken
          /\ res'.accessToken =
               generateAccessToken(env', [userId |-> res'.userId,
                                          email |-> users[res'.userId].email,
                                          role |-> users[res'.userId].role], clock')
          /\ users'[res'.userId].refreshToken = res'.inToken
          /\ RefreshResponse(users', env', clock', res'.inToken).status = 200
     /\ \A id \in 1..Len(users') :
          (/\ users'[id].isActive
           /\ jwtVerify(users'[id].refreshToken, env'.JWT_REFRESH_SECRET, clock') = "ok") =>
            RefreshResponse(users', env', clock', users'[id].refreshToken).status = 200]_vars

C13_Witness ==
  /\ res.op = "refresh" /\ res.status = 200
  /\ res.accessToken.iat > res.inToken.iat
  /\ res.accessToken \in issued
  /\ res.refreshToken = NoToken
  /\ users[res.userId].refreshToken = res.inToken
  /\ Accepts(res.inToken, res.userId)

\* C14: the request authenticator decides from the token alone: a request
\* to a protected route with "Bearer " and an access token that verifies
\* under the access secret and is unexpired passes the authenticator with
\* the token's claims attached, whether or not the account is still active.
C14_AuthenticatorIgnoresStore ==
  (/\ res.op \in GateOps /\ res.scheme = "Bearer "
   /\ jwtVerify(res.inToken, env.JWT_SECRET, clock) = "ok") =>
    /\ res.authed
    /\ res.userId = res.inToken.userId
    /\ res.status # 401
    /\ res.op \in {"logout", "me"} => res.handlerRan

C14_Witness ==
  /\ res.op = "logout" /\ res.authed /\ res.handlerRan
  /\ res.status = 200
  /\ findById(users, res.userId)
  /\ ~users[res.userId].isActive
  /\ clock > res.inToken.iat /\ clock < res.inToken.exp

\* the two calls are logins of account id that overlapped in time and have
\* both returned their tokens
BothLoggedIn(id) ==
  \A p \in Procs :
    /\ calls[p].op = "login" /\ calls[p].pc = "done" /\ calls[p].error = NoError
    /\ calls[p].doc = id /\ calls[p].overlap

\* the login whose save was written last, and the other one
LastSaved == CHOOSE p \in Procs : \A q \in Procs : calls[q].order <= calls[p].order
FirstSaved == CHOOSE p \in Procs : p # LastSaved

\* C15 (as claimed): when two logins of one account have run concurrently
\* and both have succeeded, the stored fingerprint is the refresh token
\* saved last, a refresh accepts that token and rejects the token that the
\* other login returned.
C15_LastSavedLoginWins ==
  \A id \in 1..Len(users) :
    BothLoggedIn(id) =>
      /\ users[id].refreshToken = calls[LastSaved].refreshToken
      /\ RefreshNow(calls[LastSaved].refreshToken).status = 200
      /\ RefreshNow(calls[FirstSaved].refreshToken).status # 200

\* a token made by generateRefreshToken / by generateAccessToken of this
\* process: signed with the respective secret, with the respective payload
IsRefreshToken(t) == t.wellFormed /\ t.key = env.JWT_REFRESH_SECRET /\ t.role = "none"
IsAccessToken(t) == t.wellFormed /\ t.key = env.JWT_SECRET /\ t.role \in UserRole

\* C16 (as claimed): in every configuration the process starts with, a
\* refresh token sent to a protected route fails access-token verification
\* and is answered 401 "Invalid token", and an access token sent to the
\* refresh endpoint fails refresh-token verification and is answered
\* "Invalid refresh token" with no token.
C16_SecretsDoNotStandIn ==
  /\ (res.op \in GateOps /\ res.scheme = "Bearer " /\ IsRefreshToken(res.inToken)) =>
       /\ jwtVerify(res.inToken, env.JWT_SECRET, clock) = "JsonWebTokenError"
       /\ ~res.authed /\ ~res.handlerRan
       /\ res.status = 401 /\ res.message = AUTH_ERRORS.TOKEN_INVALID
  /\ (res.op = "refresh" /\ IsAccessToken(res.inToken)) =>
       /\ jwtVerify(res.inToken, env.JWT_REFRESH_SECRET, clock) = "JsonWebTokenError"
       /\ res.message = AUTH_ERRORS.REFRESH_TOKEN_INVALID
       /\ res.accessToken = NoToken

\* C17 (as claimed): a login rejected for invalid credentials or for an
\* inactive account and a refresh rejected for an invalid or expired token
\* are answered with status 401, and a register rejected for an e-mail that
\* already exists is answered with status 400.
C17_RejectionStatusCodes ==
  /\ (/\ res.op = "login"
      /\ res.message \in {AUTH_ERRORS.INVALID_CREDENTIALS, AUTH_ERRORS.USER_INACTIVE}) =>
       res.status = 401
  /\ (res.op = "refresh" /\ res.message = AUTH_ERRORS.REFRESH_TOKEN_INVALID) =>
       res.status = 401
  /\ (res.op = "register" /\ res.message = USER_EXISTS) =>
       res.status = 400

\* no two documents of the collection have the same lower-cased e-mail
UniqueEmails(us) ==
  \A i, j \in 1..Len(us) :
    i # j => toLowerCase(us[i].email) # toLowerCase(us[j].email)

\* process p finishes a registerUser / createHrUser call in this step
Finishes(p) ==
  /\ calls[p].op \in {"register", "createHr"}
  /\ calls[p].pc = "found" /\ calls'[p].pc = "done"

Faults(p) == calls'[p].fault /\ calls'[p] # calls[p]

\* C18: when a MongoDB query of a login, refresh, logout, register or HR
\* creation fails, the call ends at once with the error of the query, which
\* is none of "Invalid email or password", "Account is inactive..." and
\* "Invalid refresh token"; it returns no token, changes no account, and
\* sends no query after the failed one.
C18_StoreFailurePropagates ==
  [][\A p \in Procs :
       Faults(p) =>
         /\ calls'[p].pc = "done"
         /\ calls'[p].error = StoreError
         /\ calls'[p].error.message \notin
              {AUTH_ERRORS.INVALID_CREDENTIALS, AUTH_ERRORS.USER_INACTIVE,
               AUTH_ERRORS.REFRESH_TOKEN_INVALID}
         /\ calls'[p].accessToken = NoToken /\ calls'[p].refreshToken = NoToken
         /\ issued' = issued
         /\ users' = users
         /\ calls'[p].storeCalls =
              (IF InFlight(p) THEN calls[p].storeCalls ELSE 0) + 1]_vars

C18_Witness ==
  /\ calls[1].op = "refresh" /\ calls[1].fault /\ calls[1].pc = "done"
  /\ calls[1].inToken = users[2].refreshToken
  /\ jwtVerify(calls[1].inToken, env.JWT_REFRESH_SECRET, clock) = "ok"
  /\ calls[1].error = StoreError
  /\ clock > 0

\* C20 (as claimed): an account with role HR is created only by the admin
\* HR-creation operation, never by the public register operation.
C20_HrOnlyThroughAdmin ==
  [][(Len(users') > Len(users) /\ users'[Len(users')].role = "HR") =>
       \E p \in Procs : Finishes(p) /\ calls[p].op = "createHr"]_vars

\* C21: a logout that follows a logout of the same account raises no error,
\* like the first one, and after each of the two the account has no stored
\* refresh fingerprint: every logout whose handler runs answers 200 without
\* an error message and leaves the fingerprint of its account empty, whether
\* or not there was one to clear.
C21_LogoutTwice ==
  (res.op = "logout" /\ res.handlerRan) =>
    /\ res.status = 200 /\ res.message = ""
    /\ stored(users, res.userId) = NoToken
    /\ prevOp.op = "logout" => stored(users, prevOp.dropped.userId) = NoToken

\* the second of two logouts in a row of one account: the first dropped a
\* fingerprint, the second found none
C21_Witness ==
  /\ prevOp.op = "logout" /\ prevOp.dropped.userId = res.userId
  /\ res.op = "logout" /\ res.handlerRan /\ res.status = 200
  /\ res.dropped = NoToken

\* C22 (as claimed): an access token issued for the claims (userId, email,
\* role) of an account, presented to a protected route before its expiry,
\* is verified to exactly these claims; presented at or after its expiry it
\* gets the Expired outcome ("Token has expired").
C22_AccessTokenRoundTrip ==
  \A i \in 1..Len(SeedUsers) :
    LET claims == [userId |-> i, email |-> SeedUsers[i].email,
                   role |-> SeedUsers[i].role]
        token == generateAccessToken(env, claims, 0)
    IN (res.op = "me" /\ res.scheme = "Bearer " /\ res.inToken = token) =>
         IF clock < token.exp
         THEN /\ res.authed
              /\ authenticate(Header("Bearer ", token), env, clock).user = claims
         ELSE /\ ~res.authed
              /\ res.message = AUTH_ERRORS.TOKEN_EXPIRED

\* C23: the server serves requests only if JWT_SECRET and
\* JWT_REFRESH_SECRET are both set in process.env and at least 32
\* characters long; with any other environment the process has exited once
\* config/env has been evaluated, and no request has been handled.
SecretOk(v) == v.set /\ Len(v.value) >= 32

C23_StartsOnlyWithBothSecrets ==
  LET ok == SecretOk(proc.env.JWT_SECRET) /\ SecretOk(proc.env.JWT_REFRESH_SECRET)
  IN /\ (proc.state = "listening" \/ res # NoRes \/ issued # {}) =>
          /\ ok
          /\ env.JWT_SECRET = proc.env.JWT_SECRET.value
          /\ env.JWT_REFRESH_SECRET = proc.env.JWT_REFRESH_SECRET.value
     /\ (~ok /\ proc.state # "starting") =>
          proc.state = "exited" /\ res = NoRes /\ issued = {}

\* a process that has exited on a valid access secret and a refresh secret
\* that is unset or too short
C23_Witness ==
  /\ proc.state = "exited"
  /\ SecretOk(proc.env.JWT_SECRET)
  /\ ~SecretOk(proc.env.JWT_REFRESH_SECRET)

\* C24 (as claimed): when a logout has been performed through the frontend
\* (the user clicked logout and the flow ran to its end), the backend holds
\* no refresh fingerprint for that account, and no token handed out is
\* accepted by the refresh endpoint for it.
C24_FrontendLogoutClearsFingerprint ==
  client.event = "logout" =>
    /\ stored(users, client.subject) = NoToken
    /\ \A t \in issued : ~Accepts(t, client.subject)

\* C25 (as claimed): when the getCurrentUser request of a page load with a
\* token in localStorage has failed, for whatever reason, the frontend is
\* unauthenticated, the token is gone from localStorage, from the auth
\* slice and from the default Authorization header, and the login page is
\* shown.
C25_FailedRestoreClearsToken ==
  (client.event = "meRejected" /\ client.last.header # NoToken
     /\ ~client.last.stale) =>
    /\ ~client.isAuthenticated /\ client.user = 0
    /\ client.localStorage = NoToken
    /\ client.accessToken = NoToken
    /\ client.header = NoToken
    /\ client.path = "/login"

C26_LoginsReturnDistinctRefreshTokens ==
  [][(res'.op = "login" /\ res'.status = 200) => res'.refreshToken \notin issued]_vars

\* the step in which the login call of process p stores its refresh token
\* and returns its tokens
LoginReturns(p) ==
  /\ calls[p].op = "login" /\ calls[p].pc = "signed"
  /\ calls'[p].pc = "done" /\ calls'[p].error = NoError

\* C27 (as claimed): once a deactivation of an account has been saved, no
\* login of that account that is still in flight returns an access token or
\* stores a refresh token: whenever a login stores and returns its tokens,
\* the account is active in the store.
C27_NoLoginPastDeactivation ==
  [][\A p \in Procs : LoginReturns(p) => users[calls[p].doc].isActive]_vars

\* C28 (as claimed): a login that was in flight when a logout of its
\* account completed does not put a refresh token back: when it finishes,
\* the stored fingerprint of the account is what it was.
C28_InFlightLoginDoesNotUndoLogout ==
  [][\A p \in Procs :
       (LoginReturns(p) /\ calls[p].loggedOut) =>
         stored(users', calls[p].doc) = stored(users, calls[p].doc)]_vars

\* C29: a status change (updateHrStatus) leaves every account's email, role,
\* password hash and stored refresh fingerprint as they were, changes the
\* isActive flag of its target only, and changes nothing at all when the
\* target is missing or is not an HR account; hence the fingerprint of an
\* account that is active after the change, if it has not expired, is
\* accepted by the refresh endpoint.
C29_StatusChangeFrame ==
  [][res'.op = "svcUpdateHrStatus" =>
       /\ Len(users') = Len(users)
       /\ \A i \in 1..Len(users) :
            /\ users'[i].email = users[i].email
            /\ users'[i].role = users[i].role
            /\ users'[i].password = users[i].password
            /\ users'[i].refreshToken = users[i].refreshToken
            /\ users'[i].isActive # users[i].isActive =>
                 res'.userId = i /\ users[i].role = "HR"
            /\ (users'[i].isActive /\ users[i].refreshToken # NoToken
                  /\ jwtVerify(users[i].refreshToken, env.JWT_REFRESH_SECRET, clock) = "ok") =>
                 RefreshResponse(users', env, clock, users[i].refreshToken).status = 200
       /\ res'.message # "" => users' = users]_vars

\* an account that held a fingerprint while it was inactive has just been
\* reactivated, and the refresh endpoint accepts the fingerprint again
C29_Witness ==
  /\ res.op = "svcUpdateHrStatus" /\ res.message = "" /\ ~res.wasActive
  /\ users[res.userId].isActive
  /\ stored(users, res.userId) # NoToken
  /\ RefreshNow(stored(users, res.userId)).status = 200

====
